---- MODULE Spec2Model ----
(***************************************************************************)
(* Gigatag-Generator: the graph view (GraphViewModal, main.ts) and its     *)
(* renderer (GraphRenderer).  The renderer builds a node/link set from the *)
(* document corpus, the selection and the tag index, and lays it out with  *)
(* a d3 force simulation.                                                   *)
(*                                                                         *)
(* Strings are sequences of tokens, so that the one string conversion of   *)
(* the builder, replace(/\.md$/, ''), is computed: "d/A.md" is             *)
(* <<"d/", "A", ".md">>, its basename is <<"A">>.                           *)
(***************************************************************************)
EXTENDS Integers, Sequences, FiniteSets, TLC

VARIABLES
    renderers,       \* the GraphRenderer objects created so far (their fields)
    selectedNodes,   \* the Set<string> of selected files, one object shared by
                     \* the modal and its renderers (entries in insertion order)
    containerSize,   \* width of the .graph-view container
    drag,            \* the d3-drag gesture in progress, or NoDrag
    nodeClicks,      \* click events dispatched on node circles so far
    onNodeClickCalls, \* calls of the onNodeClick callback so far
    modal,           \* the GraphViewModal: phase, graphRenderer, data, timers
    pending,         \* parseVault promises of refreshGraph not yet resolved
    vault,           \* the markdown files of the vault
    tagManager,      \* TagManager.tags, entries in insertion order
    ticks,           \* simulation steps taken so far
    tagColors,       \* plugin.settings.tagColors, entries in insertion order
    lookup,          \* the last colour token resolved and what each lookup
                     \* returned for it, or NoLookup
    styleEl          \* the rules of the <style id="custom-tag-colors"> element

pointerVars == <<drag, nodeClicks, onNodeClickCalls>>
modalVars == <<modal, pending, vault, tagManager, ticks>>
colorVars == <<tagColors, lookup, styleEl>>
vars == <<renderers, selectedNodes, containerSize, pointerVars, modalVars,
          colorVars>>

----------------------------------------------------------------------------
\* Bounds of the model

MaxPos == 1          \* positions are the points 0..MaxPos
MaxSel == 3          \* most entries of a selection by path (SpecBuild)
MaxSpell == 1        \* most entries of a selection by any spelling (SpecSpell)
MaxSize == 1         \* container widths are 0, 2, .., 2 * MaxSize
MaxPending == 1      \* most refreshes in flight when a row is clicked
MaxTicks == 1        \* most simulation steps in a behaviour
MaxClicks == 2       \* most node clicks in a behaviour

----------------------------------------------------------------------------
\* Values

Undef == -1                       \* JS undefined / null
NoRenderer == [kind |-> "none"]
NoSim == [kind |-> "none"]
NoDrag == [kind |-> "none"]
NoModal == [kind |-> "none"]
NoLookup == [kind |-> "none"]
NoTag == <<>>
Points == 0..MaxPos
Sizes == {2 * k : k \in 0..MaxSize}
RendererIds == {1, 2}

\* left fold of a sequence (Array.prototype.forEach with an accumulator)
FoldL(Op(_, _), acc, s) ==
    LET f[i \in 0..Len(s)] == IF i = 0 THEN acc ELSE Op(f[i - 1], s[i])
    IN  f[Len(s)]

SeqHas(s, e) == \E i \in 1..Len(s) : s[i] = e

\* link.replace(/\.md$/, '')
StripMd(s) ==
    IF Len(s) > 0 /\ s[Len(s)] = ".md" THEN SubSeq(s, 1, Len(s) - 1) ELSE s

\* this.allData[path] : allData is a Record, modelled as its entries in
\* insertion order, each [path, file, content, links]
HasKey(data, k) == \E i \in 1..Len(data) : data[i].path = k
GetKey(data, k) == data[CHOOSE i \in 1..Len(data) : data[i].path = k]

\* this.tags.get(name) : tags is a Map, modelled as its entries in insertion
\* order, each [name, color, files]
TagGet(tags, name) == tags[CHOOSE i \in 1..Len(tags) : tags[i].name = name]

----------------------------------------------------------------------------
\* GraphRenderer.generateGraphData

\* the selected paths that are keys of allData, in selection order
\* (the "if (!fileSummary) return" of each of the three passes)
SelectedSummaries(data, sel) == SelectSeq(sel, LAMBDA p : HasKey(data, p))

\* first pass: the tags whose file set has the path, in tag-index order
FileTags(tags, path) ==
    LET hit == SelectSeq(tags, LAMBDA t : SeqHas(t.files, path))
    IN  [i \in 1..Len(hit) |-> hit[i].name]

\* first pass: tagGroups.get(tagName), the selected files carrying the tag
TagGroup(data, sel, tags, name) ==
    SelectSeq(SelectedSummaries(data, sel),
              LAMBDA p : SeqHas(FileTags(tags, p), name))

\* first pass: untaggedFiles
UntaggedFiles(data, sel, tags) ==
    SelectSeq(SelectedSummaries(data, sel),
              LAMBDA p : Len(FileTags(tags, p)) = 0)

GroupSize == 3

\* (mutant) every untagged file is put into group 1
createUntaggedGroupsOneBucket(untaggedFiles) ==
    IF Len(untaggedFiles) = 0 THEN <<>> ELSE <<untaggedFiles>>

\* createUntaggedGroups: group id -> files, group of untaggedFiles[i] (0-based)
\* is floor(i / groupSize) + 1
createUntaggedGroups(untaggedFiles) ==
    LET n == Len(untaggedFiles)
        ngroups == (n + GroupSize - 1) \div GroupSize
    IN  [g \in 1..ngroups |->
            SelectSeq(untaggedFiles,
                      LAMBDA p : \E i \in 1..n :
                          /\ untaggedFiles[i] = p
                          /\ ((i - 1) \div GroupSize) + 1 = g)]

\* (mutant) the tags of the file are left in tag-index order
SortedTagsUnsorted(data, sel, tags, names) == names

\* Array.from(tags).sort((a, b) => bCount - aCount): a stable sort, by
\* insertion after the last element whose count is not smaller
SortedTags(data, sel, tags, names) ==
    LET cnt(n) == Len(TagGroup(data, sel, tags, n))
        ins(sorted, n) ==
            LET k == Cardinality({j \in 1..Len(sorted) : cnt(sorted[j]) >= cnt(n)})
            IN  SubSeq(sorted, 1, k) \o <<n>> \o SubSeq(sorted, k + 1, Len(sorted))
    IN  FoldL(ins, <<>>, names)

\* the colour class of the node of a selected file
NodeColor(data, sel, tags, path) ==
    LET ftags == FileTags(tags, path)
        groups == createUntaggedGroups(UntaggedFiles(data, sel, tags))
        mine == {g \in 1..Len(groups) : SeqHas(groups[g], path)}
    IN  IF Len(ftags) > 0
        THEN TagGet(tags, SortedTags(data, sel, tags, ftags)[1]).color
        ELSE IF mine # {}
             THEN <<"untagged-group", CHOOSE g \in mine : \A h \in mine : h <= g>>
             ELSE <<"untagged-group", 1>>

NodeRadius == 12

\* second pass: one node object per selected file that has a summary
BuildNodes(data, sel, tags) ==
    LET paths == SelectedSummaries(data, sel)
    IN  [i \in 1..Len(paths) |->
            [id |-> GetKey(data, paths[i]).file,
             name |-> GetKey(data, paths[i]).file,
             path |-> paths[i],
             radius |-> NodeRadius,
             color |-> NodeColor(data, sel, tags, paths[i]),
             x |-> Undef, vx |-> Undef, fx |-> Undef]]

\* nodeMap.get(key): nodeMap.set(file, node); nodeMap.set(path, node) in
\* node order, a later set replacing an earlier one.  0 is undefined.
NodeMapGet(nodes, key) ==
    LET hits == {i \in 1..Len(nodes) : nodes[i].id = key \/ nodes[i].path = key}
    IN  IF hits = {} THEN 0 ELSE CHOOSE i \in hits : \A j \in hits : j <= i

\* nodeMap.get(a) || nodeMap.get(b)
NodeMapGet2(nodes, a, b) ==
    IF NodeMapGet(nodes, a) # 0 THEN NodeMapGet(nodes, a) ELSE NodeMapGet(nodes, b)

\* (mutant) the duplicate test looks for the pair in one direction only
LinkExistsOneWay(nodes, links, s, t) ==
    \E i \in 1..Len(links) :
        /\ nodes[links[i].source].id = nodes[s].id
        /\ nodes[links[i].target].id = nodes[t].id

\* this.links.some(l => ids equal in either direction)
LinkExists(nodes, links, s, t) ==
    \E i \in 1..Len(links) :
        \/ /\ nodes[links[i].source].id = nodes[s].id
           /\ nodes[links[i].target].id = nodes[t].id
        \/ /\ nodes[links[i].source].id = nodes[t].id
           /\ nodes[links[i].target].id = nodes[s].id

\* Object.entries(this.allData).find(...): the first entry a link names by
\* basename, by path or by path without extension; 0 when there is none
FindTarget(data, link) ==
    LET normalizedLink == StripMd(link)
        hits == {i \in 1..Len(data) :
                    \/ data[i].file = normalizedLink
                    \/ data[i].path = normalizedLink
                    \/ StripMd(data[i].path) = normalizedLink}
    IN  IF hits = {} THEN 0 ELSE CHOOSE i \in hits : \A j \in hits : i <= j

\* "Regular wiki links": one link of the source file
AddWikiLink(data, sel, nodes, links, s, link) ==
    LET e == FindTarget(data, link)
        t == IF e = 0 THEN 0 ELSE NodeMapGet2(nodes, data[e].file, data[e].path)
    IN  IF /\ e # 0
           /\ SeqHas(sel, data[e].path)
           /\ t # 0
           /\ nodes[s].id # nodes[t].id
           /\ ~LinkExists(nodes, links, s, t)
        THEN Append(links, [source |-> s, target |-> t,
                            type |-> "wiki-link", tag |-> NoTag])
        ELSE links

\* "Tag-based connections": one member file of one tag of the source file
AddTagLink(sel, nodes, links, s, path, tag, targetPath) ==
    LET t == NodeMapGet(nodes, targetPath)
    IN  IF /\ targetPath # path
           /\ SeqHas(sel, targetPath)
           /\ t # 0
           /\ nodes[s].id # nodes[t].id
           /\ ~LinkExists(nodes, links, s, t)
        THEN Append(links, [source |-> s, target |-> t,
                            type |-> "tag-link", tag |-> tag])
        ELSE links

\* third pass, one selected file: its wiki links, then (if enabled) the
\* links to the other selected members of each of its tags
LinksOfFile(data, sel, tags, showTagConnections, nodes, links, path) ==
    LET fs == GetKey(data, path)
        s == NodeMapGet2(nodes, fs.file, path)
        wiki == FoldL(LAMBDA acc, link : AddWikiLink(data, sel, nodes, acc, s, link),
                      links, fs.links)
        tagged == FoldL(LAMBDA acc, tag :
                            FoldL(LAMBDA acc2, targetPath :
                                      AddTagLink(sel, nodes, acc2, s, path, tag, targetPath),
                                  acc, TagGet(tags, tag).files),
                        wiki, FileTags(tags, path))
    IN  IF s = 0 THEN links
        ELSE IF showTagConnections THEN tagged ELSE wiki

BuildLinks(data, sel, tags, showTagConnections, nodes) ==
    FoldL(LAMBDA acc, path :
              LinksOfFile(data, sel, tags, showTagConnections, nodes, acc, path),
          <<>>, SelectedSummaries(data, sel))

\* (mutant) the empty-selection return comes before the arrays are cleared
generateGraphDataReturnFirst(r, sel) ==
    IF Len(sel) = 0 THEN r
    ELSE LET nodes == BuildNodes(r.allData, sel, r.tags)
         IN  [r EXCEPT
                 !.nodes = nodes,
                 !.links = BuildLinks(r.allData, sel, r.tags,
                                      r.settings.showTagConnections, nodes)]

\* (mutant) the arrays are not cleared: a build appends to the previous one
generateGraphDataNoClear(r, sel) ==
    LET nodes == BuildNodes(r.allData, sel, r.tags)
        base == Len(r.nodes)
        links == BuildLinks(r.allData, sel, r.tags,
                            r.settings.showTagConnections, nodes)
    IN  IF Len(sel) = 0 THEN r
        ELSE [r EXCEPT
                 !.nodes = r.nodes \o nodes,
                 !.links = r.links \o
                     [i \in 1..Len(links) |->
                         [links[i] EXCEPT !.source = @ + base, !.target = @ + base]]]

\* generateGraphData: the node and link arrays of the renderer r, which are
\* cleared first; nothing is built for an empty selection
generateGraphData(r, sel) ==
    LET cleared == [r EXCEPT !.nodes = <<>>, !.links = <<>>]
        nodes == BuildNodes(r.allData, sel, r.tags)
    IN  IF Len(sel) = 0 THEN cleared
        ELSE [cleared EXCEPT
                 !.nodes = cleared.nodes \o nodes,
                 !.links = cleared.links \o
                     BuildLinks(r.allData, sel, r.tags,
                                r.settings.showTagConnections, nodes)]

----------------------------------------------------------------------------
\* The d3 force simulation as GraphRenderer configures it.  alpha is kept
\* in thousandths.

AlphaInit == 500        \* .alpha(0.5)
AlphaMin == 1           \* .alphaMin(0.001)
AlphaDecayDiv == 10     \* .alphaDecay(0.1): alpha += (target - alpha) / 10
AlphaDragTarget == 100  \* alphaTarget(0.1) on drag start
AlphaDragEnd == 300     \* alpha(0.3) on drag end
AlphaUpdate == 300      \* alpha(0.3) in updateSimulation
AlphaResize == 300      \* alpha(0.3) in the resize callback
AlphaRestart == 500     \* alpha(0.5) in restartSimulation

\* getBoundingClientRect().width / 2
CenterOf(size) == size \div 2

\* d3.forceSimulation(nodes) gives a node without a position its initial
\* one (a function of its index) and velocity 0, and keeps what is there
InitialPosition(i) == (i - 1) % (MaxPos + 1)

InitializeNodes(nodes) ==
    [i \in 1..Len(nodes) |->
        [nodes[i] EXCEPT
            !.x = IF nodes[i].x = Undef THEN InitialPosition(i) ELSE nodes[i].x,
            !.vx = IF nodes[i].vx = Undef THEN 0 ELSE nodes[i].vx]]

\* simulation.stop() when there is a simulation
StopSimulation(r) ==
    IF r.simulation = NoSim THEN r ELSE [r EXCEPT !.simulation.running = FALSE]

\* initializeSimulation: stop the existing simulation, create one on the
\* current nodes and links with forces centred on the container, restart it
initializeSimulation(r, size) ==
    LET stopped == StopSimulation(r)
        \* the identity of the new simulation object: it is not the old one
        handle == IF r.simulation = NoSim THEN 0 ELSE 1 - r.simulation.id
    IN  [stopped EXCEPT
            !.nodes = InitializeNodes(stopped.nodes),
            !.simulation = [kind |-> "sim", id |-> handle, running |-> TRUE,
                            alpha |-> AlphaInit, alphaTarget |-> 0,
                            center |-> CenterOf(size),
                            forceX |-> CenterOf(size),
                            linkDistance |-> r.settings.linkDistance]]

\* restartSimulation
restartSimulation(r) ==
    IF r.simulation = NoSim THEN r
    ELSE [r EXCEPT !.simulation.alpha = AlphaRestart,
                   !.simulation.running = TRUE]

\* the key of a link in the data join: `${d.source.id}-${d.target.id}`
LinkKey(nodes, l) == <<nodes[l.source].id, nodes[l.target].id>>

\* createGraphElements: everything in graphG is removed, then one line per
\* link and one circle per node are made, with no position attribute yet.
createGraphElements(r) ==
    [r EXCEPT
        !.nodeElements =
            [i \in 1..Len(r.nodes) |->
                [key |-> r.nodes[i].id, cx |-> Undef]],
        !.linkElements =
            [i \in 1..Len(r.links) |-> [key |-> LinkKey(r.nodes, r.links[i])]]]

\* the data join of updateGraphElements, selectAll('circle').data(nodes, d => d.id):
\* a node takes the first existing circle of its id unless an earlier node
\* took it, every other node gets a new circle, the circles left are removed
JoinNodeElements(old, nodes) ==
    [i \in 1..Len(nodes) |->
        LET first == \A j \in 1..(i - 1) : nodes[j].id # nodes[i].id
            same == {j \in 1..Len(old) : old[j].key = nodes[i].id}
        IN  IF first /\ same # {}
            THEN old[CHOOSE j \in same : \A k \in same : j <= k]
            ELSE [key |-> nodes[i].id, cx |-> Undef]]

\* selectAll('line').data(links, d => `${d.source.id}-${d.target.id}`): a
\* link takes the existing line of its key, every other link gets a new
\* line, the lines left are removed; a line has no state but its key
JoinLinkElements(old, nodes, links) ==
    [i \in 1..Len(links) |-> [key |-> LinkKey(nodes, links[i])]]

\* updateGraphElements: join the circles, lines and labels to the new data,
\* then initializeSimulation
updateGraphElements(r, size) ==
    initializeSimulation(
        [r EXCEPT !.nodeElements = JoinNodeElements(r.nodeElements, r.nodes),
                  !.linkElements = JoinLinkElements(r.linkElements, r.nodes, r.links)],
        size)

\* updatePositions: every circle is moved to its node's position
updatePositions(r) ==
    [r EXCEPT !.nodeElements =
        [i \in 1..Len(r.nodeElements) |->
            [r.nodeElements[i] EXCEPT
                !.cx = IF r.nodes[i].x = Undef THEN 0 ELSE r.nodes[i].x]]]

\* (mutant) a rebuild that loses the last node after the links were made
RebuildLosesNode(r, sel, size) ==
    [restartSimulation(updateGraphElements(generateGraphData(r, sel), size))
        EXCEPT !.nodes = SubSeq(@, 1, Len(@) - 1)]

\* updateSelection / updateTags / updateData: set the field, then
\* generateGraphData, updateGraphElements, restartSimulation
Rebuild(r, sel, size) ==
    restartSimulation(updateGraphElements(generateGraphData(r, sel), size))

updateSelection(r, sel, size) == Rebuild(r, sel, size)

updateTags(r, tags, sel, size) == Rebuild([r EXCEPT !.tags = tags], sel, size)

updateData(r, data, sel, size) == Rebuild([r EXCEPT !.allData = data], sel, size)

\* updateTagColor: recolour a tag of the renderer's index and rebuild, or
\* nothing when the index has no such tag
updateTagColor(r, tagName, colorClass, sel, size) ==
    IF \E i \in 1..Len(r.tags) : r.tags[i].name = tagName
    THEN Rebuild([r EXCEPT !.tags =
                     [i \in 1..Len(r.tags) |->
                         IF r.tags[i].name = tagName
                         THEN [r.tags[i] EXCEPT !.color = colorClass]
                         ELSE r.tags[i]]],
                 sel, size)
    ELSE r

\* getTagsForSelectedNodes that returns every tag of the index
getTagsForSelectedNodesAll(r, sel) ==
    [relevantTags |-> r.tags, tags |-> r.tags, selectedNodes |-> sel]

\* getTagsForSelectedNodes: the tags of the index some file of which is in
\* the selection, in index order, each with the tag object of the index;
\* with the result, the index and the selection as the call leaves them
getTagsForSelectedNodes(r, sel) ==
    [relevantTags |->
         SelectSeq(r.tags,
                   LAMBDA tag : \E k \in 1..Len(tag.files) : SeqHas(sel, tag.files[k])),
     tags |-> r.tags,
     selectedNodes |-> sel]

DefaultLinkDistance == 100

\* new GraphRenderer(container, data, selectedFiles, tags, settings, onNodeClick):
\* the fields, then initializeGraph (svg, generateGraphData,
\* createGraphElements, initializeSimulation, setupResizeObserver)
\* Scale factors of the viewport are kept in hundredths.  zoomK is the scale
\* of the svg's zoom transform (d3-zoom keeps it on the element), graphK the
\* scale of the transform attribute of graphG, set by the "zoom" listener
\* (Undef while the attribute is not set).
ZoomIdentity == 100  \* d3.zoomIdentity
ScaleMin == 10       \* scaleExtent([0.1, 4])
ScaleMax == 400

NewRenderer(data, sel, tags, settings, size) ==
    LET fields == [kind |-> "renderer",
                   allData |-> data, tags |-> tags, settings |-> settings,
                   nodes |-> <<>>, links |-> <<>>,
                   simulation |-> NoSim, nodeElements |-> <<>>,
                   linkElements |-> <<>>,
                   svgAttached |-> TRUE, observed |-> Undef,
                   hasOnNodeClick |-> TRUE,
                   zoomK |-> ZoomIdentity, graphK |-> Undef]
        built == initializeSimulation(
                     createGraphElements(generateGraphData(fields, sel)), size)
    IN  [built EXCEPT !.observed = 0]

\* (mutant) a reconfigure that makes the simulation anew
updateSimulationCold(r, size) ==
    IF r.simulation = NoSim THEN r ELSE initializeSimulation(r, size)

\* updateSimulation: nothing without a simulation, else every force is made
\* anew from the settings and the container's size, alpha(0.3).restart()
updateSimulation(r, size) ==
    IF r.simulation = NoSim THEN r
    ELSE [r EXCEPT !.simulation.center = CenterOf(size),
                   !.simulation.forceX = CenterOf(size),
                   !.simulation.linkDistance = r.settings.linkDistance,
                   !.simulation.alpha = AlphaUpdate,
                   !.simulation.running = TRUE]

\* the callback of the ResizeObserver of setupResizeObserver: a new center
\* force on the simulation when there is one, alpha(0.3).restart()
resizeCallback(r, size) ==
    IF r.simulation = NoSim THEN r
    ELSE [r EXCEPT !.simulation.center = CenterOf(size),
                   !.simulation.alpha = AlphaResize,
                   !.simulation.running = TRUE]

\* destroy: the simulation is stopped, the svg and the tooltip are removed
\* from the container; the simulation field and the observer stay
destroy(r) == [StopSimulation(r) EXCEPT !.svgAttached = FALSE]

----------------------------------------------------------------------------
\* One step of the simulation's timer, as d3-force runs the simulation that
\* initializeSimulation configures: alpha moves towards alphaTarget by
\* alphaDecay, the forces change the velocities, every node without a pin
\* moves by its velocity and every pinned node is put on its pin with
\* velocity 0, the "tick" listener (ticked -> updatePositions) runs and the
\* timer stops once alpha is below alphaMin.

TickAlpha(sim) == sim.alpha + ((sim.alphaTarget - sim.alpha) \div AlphaDecayDiv)

\* a step that moves pinned nodes by their velocity like the others
TickNodesIgnorePin(nodes, to) ==
    [i \in 1..Len(nodes) |->
        [nodes[i] EXCEPT !.x = to[i], !.vx = to[i] - nodes[i].x]]

\* to[i] is where the forces take node i when it has no pin
TickNodes(nodes, to) ==
    [i \in 1..Len(nodes) |->
        IF nodes[i].fx = Undef
        THEN [nodes[i] EXCEPT !.x = to[i], !.vx = to[i] - nodes[i].x]
        ELSE [nodes[i] EXCEPT !.x = nodes[i].fx, !.vx = 0]]

tick(r, to) ==
    LET a == TickAlpha(r.simulation)
    IN  updatePositions(
            [r EXCEPT !.nodes = TickNodes(r.nodes, to),
                      !.simulation.alpha = a,
                      !.simulation.running = (a >= AlphaMin)])

----------------------------------------------------------------------------
\* createDragBehavior.  A gesture keeps the datum d that was bound to the
\* circle when it started: the node idx of the renderer's nodes, or, once a
\* rebuild has replaced the node objects, the object d that no node set has.

NoNode == [kind |-> "none"]

Gesture(rid, i) == [kind |-> "drag", renderer |-> rid, idx |-> i, d |-> NoNode]

Subject(r, g) == IF g.idx # 0 THEN r.nodes[g.idx] ELSE g.d

\* generateGraphData has replaced the node objects of renderer rid, whose
\* fields were old
DetachDrag(g, rid, old) ==
    IF g # NoDrag /\ g.renderer = rid /\ g.idx # 0
    THEN [g EXCEPT !.idx = 0, !.d = old.nodes[g.idx]]
    ELSE g

\* .on('end') that leaves the pin of d in place
dragendedKeepPin(r, g) ==
    [r EXCEPT !.simulation.alphaTarget = 0,
              !.simulation.alpha = AlphaDragEnd,
              !.simulation.running = TRUE]

\* (mutant) .on('start') without the restart of the timer
dragstartedNoRestart(r, i) ==
    [r EXCEPT !.simulation.alphaTarget = AlphaDragTarget,
              !.nodes[i].fx = r.nodes[i].x]

\* .on('start'): alphaTarget(0.1).restart(); d.fx = d.x
dragstarted(r, i) ==
    [r EXCEPT !.simulation.alphaTarget = AlphaDragTarget,
              !.simulation.running = TRUE,
              !.nodes[i].fx = r.nodes[i].x]

\* .on('drag'): d.fx = event.x; updatePositions()
dragged(r, g, p) ==
    IF g.idx # 0
    THEN [r |-> updatePositions([r EXCEPT !.nodes[g.idx].fx = p]), g |-> g]
    ELSE [r |-> updatePositions(r), g |-> [g EXCEPT !.d.fx = p]]

\* .on('end'): d.fx = null; alphaTarget(0); alpha(0.3).restart()
dragended(r, g) ==
    LET released == IF g.idx # 0 THEN [r EXCEPT !.nodes[g.idx].fx = Undef] ELSE r
    IN  [released EXCEPT !.simulation.alphaTarget = 0,
                         !.simulation.alpha = AlphaDragEnd,
                         !.simulation.running = TRUE]

\* the listeners that createGraphElements and updateGraphElements put on a
\* node's circle, by event type
NodeListeners == {"drag", "mouseover", "mouseout"}

\* a click event on the circle of node i: the onNodeClick callback is called
\* by a click listener, were there one
DispatchClick(r, i, calls) ==
    IF "click" \in NodeListeners /\ r.hasOnNodeClick
    THEN Append(calls, [id |-> r.nodes[i].id, name |-> r.nodes[i].name,
                        path |-> r.nodes[i].path])
    ELSE calls

----------------------------------------------------------------------------
\* Inputs of the builder: a universe of four documents, two of which share
\* a basename, with the links, tags and selections drawn over them

PathA == <<"A", ".md">>
PathB == <<"B", ".md">>
PathC == <<"C", ".md">>
PathDA == <<"d/", "A", ".md">>
AllPaths == {PathA, PathB, PathC, PathDA}

\* TFile.basename: the file name without folder and extension
Basename(path) == <<path[Len(path) - 1]>>

TagX == <<"x">>
TagY == <<"y">>

\* the sequences of at most n distinct elements of S (a Set in insertion order)
DistinctSeqs(S, n) ==
    {q \in UNION {[1..k -> S] : k \in 0..n} :
        \A i, j \in 1..Len(q) : i # j => q[i] # q[j]}

\* the wiki links of a document: by basename, by path without extension,
\* to no document, by path
LinkChoices ==
    {<<>>,
     << <<"B">>, <<"d/", "A">> >>,
     << <<"Z">>, <<"C">>, <<"A", ".md">> >>}

\* parseVault's summary of one file
Summary(path, links) ==
    [path |-> path, file |-> Basename(path), content |-> <<>>, links |-> links]

CorpusPaths == {<<PathA, PathB, PathC>>, <<PathDA, PathA, PathB>>, <<PathB>>}

\* the first two documents of a corpus have any of the link lists, a third
\* document has no links
Corpora ==
    UNION {{[i \in 1..Len(ps) |-> Summary(ps[i], l[i])] :
                l \in {m \in [1..Len(ps) -> LinkChoices] :
                           \A i \in 3..Len(ps) : m[i] = <<>>}} :
           ps \in CorpusPaths}

TagIndexes ==
    {<< [name |-> TagX, color |-> <<"tag-color", 1>>, files |-> fx],
        [name |-> TagY, color |-> <<"tag-color", 2>>, files |-> fy] >> :
        fx \in {<<>>, <<PathA, PathB, PathC>>, <<PathB, PathDA>>},
        fy \in {<<>>, <<PathA, PathB>>}}

\* what a caller may put into a selection: the three spellings of a file
SpellingsOf(path) == {path, Basename(path), StripMd(path)}

Spellings == UNION {SpellingsOf(p) : p \in AllPaths}

Settings(show) == [showTagConnections |-> show, linkDistance |-> DefaultLinkDistance]

----------------------------------------------------------------------------
\* A renderer constructed on drawn inputs, then rebuilt through its public
\* operations.  SpecBuild selects files by path, as the file tree of the
\* modal does; SpecSpell selects them by any spelling.

InitBuildOf(selections) ==
    /\ selectedNodes \in selections
    /\ containerSize = 2
    /\ \E data \in Corpora, tags \in TagIndexes, show \in BOOLEAN :
           renderers = [i \in RendererIds |->
               IF i = 1
               THEN NewRenderer(data, selectedNodes, tags, Settings(show), containerSize)
               ELSE NoRenderer]
    /\ drag = NoDrag
    /\ nodeClicks = 0
    /\ onNodeClickCalls = <<>>
    /\ modal = NoModal
    /\ pending = <<>>
    /\ vault = <<>>
    /\ tagManager = <<>>
    /\ ticks = 0
    /\ tagColors = <<>>
    /\ lookup = NoLookup
    /\ styleEl = <<>>

\* the caller adds an entry to the selection and calls updateSelection
BuildSelect(e, max) ==
    /\ Len(selectedNodes) < max
    /\ ~SeqHas(selectedNodes, e)
    /\ selectedNodes' = Append(selectedNodes, e)
    /\ renderers' = [renderers EXCEPT
           ![1] = updateSelection(@, selectedNodes', containerSize)]
    /\ UNCHANGED <<colorVars, containerSize, pointerVars, modalVars>>

\* the caller removes an entry from the selection and calls updateSelection
BuildDeselect(e) ==
    /\ SeqHas(selectedNodes, e)
    /\ selectedNodes' = SelectSeq(selectedNodes, LAMBDA q : q # e)
    /\ renderers' = [renderers EXCEPT
           ![1] = updateSelection(@, selectedNodes', containerSize)]
    /\ UNCHANGED <<colorVars, containerSize, pointerVars, modalVars>>

\* the caller sets settings.showTagConnections and rebuilds
BuildShowTags(show) ==
    /\ show # renderers[1].settings.showTagConnections
    /\ renderers' = [renderers EXCEPT
           ![1] = updateSelection([@ EXCEPT !.settings.showTagConnections = show],
                                  selectedNodes, containerSize)]
    /\ UNCHANGED <<colorVars, selectedNodes, containerSize, pointerVars, modalVars>>

InitBuild == InitBuildOf(DistinctSeqs(AllPaths, MaxSel))

NextBuild ==
    \/ \E e \in AllPaths : BuildSelect(e, MaxSel)
    \/ \E e \in AllPaths : BuildDeselect(e)
    \/ \E show \in BOOLEAN : BuildShowTags(show)

SpecBuild == InitBuild /\ [][NextBuild]_vars

InitSpell == InitBuildOf(DistinctSeqs(Spellings, MaxSpell))

NextSpell ==
    \/ \E e \in Spellings : BuildSelect(e, MaxSpell)
    \/ \E e \in Spellings : BuildDeselect(e)
    \/ \E show \in BOOLEAN : BuildShowTags(show)

SpecSpell == InitSpell /\ [][NextSpell]_vars

----------------------------------------------------------------------------
\* TagManager and GraphViewModal (main.ts)

PaletteSize == 10

\* TagManager.extractAndUpdateTags: the tags found in the files of data, in
\* the order found; a tag that the manager had keeps its colour and starts
\* from its files array.  A file's content is kept as the tag names that the
\* scan of its lines finds.
extractAndUpdateTags(old, data) ==
    LET has(tm, name) == \E i \in 1..Len(tm) : tm[i].name = name
        create(tm, name) ==
            IF has(tm, name) THEN tm
            ELSE Append(tm,
                     [name |-> name,
                      color |-> IF has(old, name) THEN TagGet(old, name).color
                                ELSE <<"tag-color", (Len(tm) % PaletteSize) + 1>>,
                      files |-> IF has(old, name) THEN TagGet(old, name).files
                                ELSE <<>>])
        push(tm, name, path) ==
            [i \in 1..Len(tm) |->
                IF tm[i].name = name /\ ~SeqHas(tm[i].files, path)
                THEN [tm[i] EXCEPT !.files = Append(@, path)]
                ELSE tm[i]]
        ofFile(tm, fs) ==
            FoldL(LAMBDA acc, name : push(create(acc, name), name, fs.path),
                  tm, fs.content)
    IN  FoldL(ofFile, <<>>, data)

\* GraphViewModal.convertToGraphTags: name, colour and a Set of the files
convertToGraphTags(tm) ==
    [i \in 1..Len(tm) |->
        [name |-> tm[i].name, color |-> tm[i].color, files |-> tm[i].files]]

\* the .then of refreshGraph on the renderer it saved: updateData,
\* updateSelection, updateTags, and the settings as they were
RefreshRenderer(r, data, sel, graphTags, size) ==
    LET currentSettings == r.settings
        updated == updateTags(
                       updateSelection(updateData(r, data, sel, size), sel, size),
                       graphTags, sel, size)
    IN  [updated EXCEPT !.settings = currentSettings]

\* the documents of a vault: A.md links to B and has tag x, B.md has tags x
\* and y
FileA == [path |-> PathA, file |-> Basename(PathA), content |-> <<TagX>>,
          links |-> << <<"B">> >>]
FileB == [path |-> PathB, file |-> Basename(PathB), content |-> <<TagX, TagY>>,
          links |-> <<>>]

\* the vault of the modal's life (Spec) and of the pointer's (SpecSim)
ModalVault == <<FileA>>
SimVault == <<FileA, FileB>>

VaultPaths == {vault[i].path : i \in 1..Len(vault)}

\* the size of the container while the modal is shown
OpenSizes == Sizes \ {0}

\* GraphViewModal.initializeGraph on modal fields m: a GraphRenderer is
\* constructed and assigned, a refresh is scheduled 500 ms later
ModalInitializeGraph(m, sel) ==
    LET rid == CHOOSE i \in RendererIds :
                   /\ renderers[i] = NoRenderer
                   /\ \A j \in RendererIds : j < i => renderers[j] # NoRenderer
    IN  /\ renderers' = [renderers EXCEPT ![rid] =
               NewRenderer(m.data, sel, convertToGraphTags(tagManager),
                           Settings(FALSE), containerSize)]
        /\ modal' = [m EXCEPT !.graphRenderer = rid, !.refreshTimers = @ + 1]

\* parseVault(this.app.vault) is called for renderer rid: the promises in
\* flight and the new one
StartRead(rid) ==
    Append([i \in 1..Len(pending) |-> [pending[i] EXCEPT !.latest = FALSE]],
           [renderer |-> rid, data |-> vault, latest |-> TRUE])

\* GraphViewModal.refreshGraph on modal fields m: a parseVault promise for
\* the renderer there is, or initializeGraph when there is none. A promise
\* is the latest while no parseVault call was made after its own.
ModalRefreshGraph(m, sel) ==
    IF m.graphRenderer # 0
    THEN /\ pending' = StartRead(m.graphRenderer)
         /\ modal' = m
         /\ UNCHANGED renderers
    ELSE /\ ModalInitializeGraph(m, sel)
         /\ UNCHANGED pending

\* Modal.open -> onOpen: the panels are built, initializeGraph is scheduled
\* 100 ms later
Open ==
    /\ modal.phase = "constructed"
    /\ modal' = [modal EXCEPT !.phase = "open", !.initTimer = TRUE]
    /\ UNCHANGED <<colorVars, renderers, selectedNodes, containerSize, pointerVars,
                   pending, vault, tagManager, ticks>>

\* the 100 ms timer of onOpen
InitTimerFires ==
    /\ modal.initTimer
    /\ ModalInitializeGraph([modal EXCEPT !.initTimer = FALSE], selectedNodes)
    /\ UNCHANGED <<colorVars, selectedNodes, containerSize, pointerVars,
                   pending, vault, tagManager, ticks>>

\* row.onclick of a file of the tree while fewer than max refreshes are in
\* flight: the selection is toggled, refreshGraph
RowClickWithin(path, max) ==
    /\ modal.phase = "open"
    /\ Len(pending) < max
    /\ selectedNodes' = IF SeqHas(selectedNodes, path)
                        THEN SelectSeq(selectedNodes, LAMBDA q : q # path)
                        ELSE Append(selectedNodes, path)
    /\ ModalRefreshGraph(modal, selectedNodes')
    /\ UNCHANGED <<colorVars, containerSize, pointerVars, vault, tagManager, ticks>>

\* row.onclick of a file of the tree
RowClick(path) == RowClickWithin(path, MaxPending)

\* a 500 ms timer of initializeGraph
RefreshTimerFires ==
    /\ modal.refreshTimers > 0
    /\ ModalRefreshGraph([modal EXCEPT !.refreshTimers = @ - 1], selectedNodes)
    /\ UNCHANGED <<colorVars, selectedNodes, containerSize, pointerVars, vault,
                   tagManager, ticks>>

\* the parseVault promise k of refreshGraph resolves
RefreshCompletes(k) ==
    LET p == pending[k]
        newTags == extractAndUpdateTags(tagManager, p.data)
    IN  /\ modal' = [modal EXCEPT !.data = p.data]
        /\ tagManager' = newTags
        /\ renderers' = [renderers EXCEPT ![p.renderer] =
               RefreshRenderer(@, p.data, selectedNodes,
                               convertToGraphTags(newTags), containerSize)]
        /\ drag' = DetachDrag(drag, p.renderer, renderers[p.renderer])
        /\ pending' = SubSeq(pending, 1, k - 1) \o SubSeq(pending, k + 1, Len(pending))
        /\ UNCHANGED <<colorVars, selectedNodes, containerSize, nodeClicks,
                       onNodeClickCalls, vault, ticks>>

\* Modal.close -> onClose: destroy on the renderer of the modal; the
\* container leaves the document
Close ==
    /\ modal.phase = "open"
    /\ modal' = [modal EXCEPT !.phase = "closed"]
    /\ renderers' = IF modal.graphRenderer # 0
                    THEN [renderers EXCEPT ![modal.graphRenderer] = destroy(@)]
                    ELSE renderers
    /\ containerSize' = 0
    /\ UNCHANGED <<colorVars, selectedNodes, pointerVars, pending, vault, tagManager, ticks>>

\* the ResizeObserver of renderer rid reports a size of the container that
\* it has not reported
ResizeNotify(rid) ==
    /\ renderers[rid] # NoRenderer
    /\ renderers[rid].observed # containerSize
    /\ renderers' = [renderers EXCEPT ![rid] =
           [resizeCallback(@, containerSize) EXCEPT !.observed = containerSize]]
    /\ UNCHANGED <<colorVars, selectedNodes, containerSize, pointerVars, modalVars>>

\* the timer of the running simulation of renderer rid steps it
Tick(rid) ==
    /\ renderers[rid] # NoRenderer
    /\ renderers[rid].simulation.running
    /\ \E to \in [1..Len(renderers[rid].nodes) -> Points] :
           renderers' = [renderers EXCEPT ![rid] = tick(@, to)]

\* a step, while the steps of the behaviour are fewer than MaxTicks
LifeTick(rid) ==
    /\ ticks < MaxTicks
    /\ Tick(rid)
    /\ ticks' = ticks + 1
    /\ UNCHANGED <<colorVars, selectedNodes, containerSize, pointerVars,
                   modal, pending, vault, tagManager>>

\* the state after new GraphViewModal(app, plugin, data, tagManager), data
\* and the tags being those of the vault
Init ==
    /\ vault = ModalVault
    /\ tagManager = extractAndUpdateTags(<<>>, vault)
    /\ modal = [kind |-> "modal", phase |-> "constructed", graphRenderer |-> 0,
                data |-> vault, initTimer |-> FALSE, refreshTimers |-> 0]
    /\ selectedNodes = <<>>
    /\ containerSize \in OpenSizes
    /\ renderers = [i \in RendererIds |-> NoRenderer]
    /\ pending = <<>>
    /\ drag = NoDrag
    /\ nodeClicks = 0
    /\ onNodeClickCalls = <<>>
    /\ ticks = 0
    /\ tagColors = <<>>
    /\ lookup = NoLookup
    /\ styleEl = <<>>

Next ==
    \/ Open
    \/ InitTimerFires
    \/ \E path \in VaultPaths : RowClick(path)
    \/ RefreshTimerFires
    \/ \E k \in 1..Len(pending) : RefreshCompletes(k)
    \/ Close
    \/ \E rid \in RendererIds : ResizeNotify(rid)
    \/ \E rid \in RendererIds : LifeTick(rid)

Spec == Init /\ [][Next]_vars

----------------------------------------------------------------------------
\* The open modal with its renderer, the pointer on the graph

\* mousedown on the circle of node i of renderer rid
DragStart(rid, i) ==
    /\ drag = NoDrag
    /\ renderers[rid] # NoRenderer /\ renderers[rid].svgAttached
    /\ i \in 1..Len(renderers[rid].nodes)
    /\ renderers' = [renderers EXCEPT ![rid] = dragstarted(@, i)]
    /\ drag' = Gesture(rid, i)
    /\ UNCHANGED <<colorVars, selectedNodes, containerSize, nodeClicks, onNodeClickCalls,
                   modalVars>>

\* mousemove to p during the gesture
DragMove(p) ==
    /\ drag # NoDrag
    /\ LET res == dragged(renderers[drag.renderer], drag, p)
       IN  /\ renderers' = [renderers EXCEPT ![drag.renderer] = res.r]
           /\ drag' = res.g
    /\ UNCHANGED <<colorVars, selectedNodes, containerSize, nodeClicks, onNodeClickCalls,
                   modalVars>>

\* mouseup
DragEnd ==
    /\ drag # NoDrag
    /\ renderers' = [renderers EXCEPT ![drag.renderer] = dragended(@, drag)]
    /\ drag' = NoDrag
    /\ UNCHANGED <<colorVars, selectedNodes, containerSize, nodeClicks, onNodeClickCalls,
                   modalVars>>

\* a click on the circle of node i of renderer rid
NodeClick(rid, i) ==
    /\ drag = NoDrag
    /\ nodeClicks < MaxClicks
    /\ renderers[rid] # NoRenderer /\ renderers[rid].svgAttached
    /\ i \in 1..Len(renderers[rid].nodes)
    /\ nodeClicks' = nodeClicks + 1
    /\ onNodeClickCalls' = DispatchClick(renderers[rid], i, onNodeClickCalls)
    /\ UNCHANGED <<colorVars, renderers, selectedNodes, containerSize, drag, modalVars>>

\* the modal after its two timers and the first refresh, the container's
\* size reported, nothing selected yet
InitSim ==
    /\ vault = SimVault
    /\ tagManager = extractAndUpdateTags(<<>>, vault)
    /\ modal = [kind |-> "modal", phase |-> "open", graphRenderer |-> 1,
                data |-> vault, initTimer |-> FALSE, refreshTimers |-> 0]
    /\ selectedNodes = <<>>
    /\ containerSize = 2
    /\ renderers = [i \in RendererIds |->
           IF i = 1
           THEN RefreshRenderer(
                    [resizeCallback(
                         NewRenderer(vault, <<>>, convertToGraphTags(tagManager),
                                     Settings(FALSE), containerSize),
                         containerSize) EXCEPT !.observed = containerSize],
                    vault, <<>>, convertToGraphTags(tagManager), containerSize)
           ELSE NoRenderer]
    /\ pending = <<>>
    /\ drag = NoDrag
    /\ nodeClicks = 0
    /\ onNodeClickCalls = <<>>
    /\ ticks = 0
    /\ tagColors = <<>>
    /\ lookup = NoLookup
    /\ styleEl = <<>>

NextSim ==
    \/ \E path \in VaultPaths : RowClick(path)
    \/ \E k \in 1..Len(pending) : RefreshCompletes(k)
    \/ \E i \in 1..Len(renderers[1].nodes) : DragStart(1, i)
    \/ \E p \in Points : DragMove(p)
    \/ DragEnd
    \/ LifeTick(1)

SpecSim == InitSim /\ [][NextSim]_vars

\* the same modal, the pointer clicking on nodes
NextClick ==
    \/ \E path \in VaultPaths : RowClick(path)
    \/ \E k \in 1..Len(pending) : RefreshCompletes(k)
    \/ \E i \in 1..Len(renderers[1].nodes) : NodeClick(1, i)
    \/ LifeTick(1)

SpecClick == InitSim /\ [][NextClick]_vars

----------------------------------------------------------------------------
\* Claims about the builder

R1 == renderers[1]

\* the unordered pair of endpoint ids of a link
EndIds(nodes, l) == {nodes[l.source].id, nodes[l.target].id}

\* a build as the claims compare builds: nodes by (id, path, radius, colour),
\* links by (endpoint ids, kind, tag)
NodeView(nodes) ==
    {[id |-> nodes[i].id, path |-> nodes[i].path, radius |-> nodes[i].radius,
      color |-> nodes[i].color] : i \in 1..Len(nodes)}

LinkView(nodes, links) ==
    {[ends |-> EndIds(nodes, links[i]), type |-> links[i].type,
      tag |-> links[i].tag] : i \in 1..Len(links)}

EdgeKinds(nodes, links) ==
    {[ends |-> EndIds(nodes, links[i]), type |-> links[i].type] : i \in 1..Len(links)}

\* a renderer that has built nothing yet, on the inputs of r
Unbuilt(r) == [r EXCEPT !.nodes = <<>>, !.links = <<>>]

\* the build of r's inputs with showTagConnections set to show
BuildWith(r, show) ==
    generateGraphData([Unbuilt(r) EXCEPT !.settings.showTagConnections = show],
                      selectedNodes)

\* C3: no two links of a build join the same unordered pair of node ids, and
\* no link joins a node id to itself.
C3_NoDuplicateNoSelfEdge ==
    \A i \in 1..Len(R1.links) :
        /\ R1.nodes[R1.links[i].source].id # R1.nodes[R1.links[i].target].id
        /\ \A j \in 1..Len(R1.links) :
               i # j => EndIds(R1.nodes, R1.links[i]) # EndIds(R1.nodes, R1.links[j])

\* C3 witness: A.md and B.md are selected, link to each other and share tag
\* x with tag connections on, so that the pair is offered three times
C3_Witness ==
    /\ SeqHas(selectedNodes, PathA) /\ SeqHas(selectedNodes, PathB)
    /\ HasKey(R1.allData, PathA) /\ HasKey(R1.allData, PathB)
    /\ SeqHas(GetKey(R1.allData, PathA).links, <<"B">>)
    /\ SeqHas(GetKey(R1.allData, PathB).links, PathA)
    /\ R1.settings.showTagConnections
    /\ SeqHas(TagGet(R1.tags, TagX).files, PathA)
    /\ SeqHas(TagGet(R1.tags, TagX).files, PathB)
    /\ Len(R1.links) >= 1

\* C4: with an empty selection the build has no node and no link.
C4_EmptySelectionEmptyGraph ==
    Len(selectedNodes) = 0 => R1.nodes = <<>> /\ R1.links = <<>>

\* C4 witness: a rebuild (not the constructor's build) on an empty selection
\* over a corpus that has documents
C4_Witness ==
    /\ Len(selectedNodes) = 0
    /\ R1.simulation.id = 1
    /\ Len(R1.allData) > 0

\* C5: a document of the corpus that the selection names by its path, its
\* basename or its path without extension has its node in the build.
C5_AnySpellingIncludes ==
    \A i \in 1..Len(R1.allData) :
        (\E e \in SpellingsOf(R1.allData[i].path) : SeqHas(selectedNodes, e))
            => \E n \in 1..Len(R1.nodes) :
                   /\ R1.nodes[n].id = R1.allData[i].file
                   /\ R1.nodes[n].path = R1.allData[i].path

\* C6: the links built without tag connections are among the links built
\* with them (by endpoint pair and kind), and the others are tag links.
C6_TagToggleSubset ==
    LET off == BuildWith(R1, FALSE)
        on == BuildWith(R1, TRUE)
        offEdges == EdgeKinds(off.nodes, off.links)
        onEdges == EdgeKinds(on.nodes, on.links)
    IN  /\ offEdges \subseteq onEdges
        /\ \A e \in onEdges \ offEdges : e.type = "tag-link"

\* C7: the nodes and links of the renderer are those of a build of the same
\* corpus, selection, tag index and settings by a renderer that has built
\* nothing before.
C7_BuildIsDeterministic ==
    LET fresh == generateGraphData(Unbuilt(R1), selectedNodes)
    IN  /\ NodeView(R1.nodes) = NodeView(fresh.nodes)
        /\ LinkView(R1.nodes, R1.links) = LinkView(fresh.nodes, fresh.links)
        /\ Len(R1.nodes) = Len(fresh.nodes)
        /\ Len(R1.links) = Len(fresh.links)

\* C7 witness: a rebuild that yields nodes and links
C7_Witness ==
    /\ R1.simulation.id = 1
    /\ Len(R1.nodes) >= 2
    /\ Len(R1.links) >= 1

----------------------------------------------------------------------------
\* Claims about the modal's life

\* a renderer on which destroy has been called
Destroyed(r) == r # NoRenderer /\ ~r.svgAttached

\* the renderers whose simulation's timer is running
RunningSims ==
    {rid \in RendererIds :
        renderers[rid] # NoRenderer /\ renderers[rid].simulation.running}

\* C1: the simulation of a destroyed renderer is not running: it is not
\* restarted and no new one is started on the renderer, whatever comes after
\* destroy (a resize report, a refresh that completes).
C1_DestroyedStaysStopped ==
    \A rid \in RendererIds :
        Destroyed(renderers[rid]) => rid \notin RunningSims

\* C2: while the modal is open at most one simulation is running on its
\* graph container.
C2_AtMostOneRunning ==
    modal.phase = "open" => Cardinality(RunningSims) <= 1

----------------------------------------------------------------------------
\* Claims about the pointer

\* node i of renderer rid is the subject of the gesture in progress
Dragging(rid, i) == drag # NoDrag /\ drag.renderer = rid /\ drag.idx = i

FreeNoPin ==
    \A rid \in RendererIds :
        renderers[rid] # NoRenderer =>
            \A i \in 1..Len(renderers[rid].nodes) :
                ~Dragging(rid, i) => renderers[rid].nodes[i].fx = Undef

\* C9: a node that is not being dragged has no pin; the start of a drag
\* pins its node where the node is, sets alphaTarget to 0.1 and has the
\* simulation running; the end of a drag leaves no node pinned, alphaTarget
\* 0, alpha 0.3 and the simulation running.
C9_DragStateMachine ==
    /\ []FreeNoPin
    /\ [][/\ (drag = NoDrag /\ drag' # NoDrag) =>
                 LET rid == drag'.renderer
                     i == drag'.idx
                 IN  /\ renderers'[rid].nodes[i].fx = renderers[rid].nodes[i].x
                     /\ renderers'[rid].nodes[i].x = renderers[rid].nodes[i].x
                     /\ renderers'[rid].simulation.alphaTarget = 100
                     /\ renderers'[rid].simulation.running
          /\ (drag # NoDrag /\ drag' = NoDrag) =>
                 LET rid == drag.renderer
                 IN  /\ \A i \in 1..Len(renderers'[rid].nodes) :
                            renderers'[rid].nodes[i].fx = Undef
                     /\ renderers'[rid].simulation.alphaTarget = 0
                     /\ renderers'[rid].simulation.alpha = 300
                     /\ renderers'[rid].simulation.running]_vars

\* C9 witness: a drag has ended on a graph of two nodes, one of which a step
\* had taken to the point the pointer moved it to
C9_Witness ==
    /\ drag = NoDrag
    /\ Len(R1.nodes) >= 2
    /\ R1.simulation.alpha = 300
    /\ R1.simulation.alphaTarget = 0
    /\ R1.nodes[1].x = 1
    /\ R1.nodes[1].vx = 0
    /\ R1.nodes[1].fx = Undef

\* C10: every click on a node has called onNodeClick once, with the id, the
\* name and the path of a node.
C10_ClickInvokesCallback ==
    /\ Len(onNodeClickCalls) = nodeClicks
    /\ \A k \in 1..Len(onNodeClickCalls) :
           \E i \in 1..Len(R1.allData) :
               /\ onNodeClickCalls[k].id = R1.allData[i].file
               /\ onNodeClickCalls[k].path = R1.allData[i].path
----------------------------------------------------------------------------
\* Claims about the tags of the selection

\* C11: getTagsForSelectedNodes returns the tags of the index that have a
\* selected file, each once and with its record of the index, returns no
\* other tag, and leaves the index and the selection as they were.
C11_RelevantTagsExact ==
    LET call == getTagsForSelectedNodes(R1, selectedNodes)
        got == call.relevantTags
        member(t) == \E f \in {selectedNodes[k] : k \in 1..Len(selectedNodes)} :
                         \E j \in 1..Len(t.files) : t.files[j] = f
    IN  /\ \A i \in 1..Len(R1.tags) :
               member(R1.tags[i]) <=>
                   \E k \in 1..Len(got) : got[k].name = R1.tags[i].name
        /\ \A k \in 1..Len(got) :
               /\ \E i \in 1..Len(R1.tags) : got[k] = R1.tags[i]
               /\ \A l \in 1..Len(got) : got[l].name = got[k].name => l = k
        /\ call.tags = R1.tags
        /\ call.selectedNodes = selectedNodes

\* C11 witness: a tag with a selected file is returned while another tag,
\* which has files, none of them selected, is not
C11_Witness ==
    LET got == getTagsForSelectedNodes(R1, selectedNodes).relevantTags
    IN  /\ Len(selectedNodes) >= 1
        /\ Len(got) = 1
        /\ \E i \in 1..Len(R1.tags) :
               /\ Len(R1.tags[i].files) > 0
               /\ \A k \in 1..Len(got) : got[k].name # R1.tags[i].name
----------------------------------------------------------------------------
\* Claims about the nodes and links of a build

\* the included documents: the selected paths that the corpus has
Included(r) ==
    {p \in {selectedNodes[k] : k \in 1..Len(selectedNodes)} : HasKey(r.allData, p)}

\* the document at path s has an outbound link that resolves to the document
\* at path t
LinksTo(r, s, t) ==
    \E k \in 1..Len(GetKey(r.allData, s).links) :
        LET e == FindTarget(r.allData, GetKey(r.allData, s).links[k])
        IN  e # 0 /\ r.allData[e].path = t

\* the unordered pair of the documents that a link joins
EndPaths(nodes, l) == {nodes[l.source].path, nodes[l.target].path}

\* C12: without tag connections, two distinct included documents are joined
\* by a link exactly when one of them has an outbound link that resolves to
\* the other, and every link joins two distinct included documents.
C12_WikiEdgesExact ==
    ~R1.settings.showTagConnections =>
        /\ \A s, t \in Included(R1) :
               s # t =>
                   ((LinksTo(R1, s, t) \/ LinksTo(R1, t, s)) <=>
                        \E i \in 1..Len(R1.links) :
                            EndPaths(R1.nodes, R1.links[i]) = {s, t})
        /\ \A i \in 1..Len(R1.links) :
               /\ EndPaths(R1.nodes, R1.links[i]) \subseteq Included(R1)
               /\ Cardinality(EndPaths(R1.nodes, R1.links[i])) = 2

\* the document at path p is a member of the tag
MemberOf(tag, p) == \E j \in 1..Len(tag.files) : tag.files[j] = p

\* the links of r that join the documents at paths s and t
LinksJoining(r, s, t) ==
    {i \in 1..Len(r.links) : EndPaths(r.nodes, r.links[i]) = {s, t}}

\* C13: with tag connections, two distinct included documents that are
\* members of a common tag are joined by exactly one link, and when neither
\* links to the other, that link is a tag link carrying a tag of both.
C13_TagEdgesComplete ==
    R1.settings.showTagConnections =>
        \A s, t \in Included(R1) :
            (s # t /\ \E k \in 1..Len(R1.tags) :
                          MemberOf(R1.tags[k], s) /\ MemberOf(R1.tags[k], t)) =>
                /\ Cardinality(LinksJoining(R1, s, t)) = 1
                /\ (~LinksTo(R1, s, t) /\ ~LinksTo(R1, t, s)) =>
                       \A i \in LinksJoining(R1, s, t) :
                           /\ R1.links[i].type = "tag-link"
                           /\ \E k \in 1..Len(R1.tags) :
                                  /\ R1.tags[k].name = R1.links[i].tag
                                  /\ MemberOf(R1.tags[k], s)
                                  /\ MemberOf(R1.tags[k], t)

----------------------------------------------------------------------------
\* A renderer on a corpus of seven documents with distinct basenames and no
\* links, rebuilt as the caller selects and deselects them in any order

MaxGroupSel == 7     \* most selected documents of the seven

GroupPaths ==
    << <<"N1", ".md">>, <<"N2", ".md">>, <<"N3", ".md">>, <<"N4", ".md">>,
       <<"N5", ".md">>, <<"N6", ".md">>, <<"N7", ".md">> >>

GroupCorpus == [i \in 1..Len(GroupPaths) |-> Summary(GroupPaths[i], <<>>)]

\* tag indexes on the seven: no tag has a file; x has three files and y two,
\* one of them in both
GroupTagIndexes ==
    {<< [name |-> TagX, color |-> <<"tag-color", 1>>, files |-> fs[1]],
        [name |-> TagY, color |-> <<"tag-color", 2>>, files |-> fs[2]] >> :
        fs \in {<< <<>>, <<>> >>,
                << <<GroupPaths[1], GroupPaths[2], GroupPaths[3]>>,
                   <<GroupPaths[1], GroupPaths[4]>> >>}}

InitGroup ==
    /\ selectedNodes = <<>>
    /\ containerSize = 2
    /\ \E tags \in GroupTagIndexes :
           renderers = [i \in RendererIds |->
               IF i = 1
               THEN NewRenderer(GroupCorpus, selectedNodes, tags, Settings(FALSE),
                                containerSize)
               ELSE NoRenderer]
    /\ drag = NoDrag
    /\ nodeClicks = 0
    /\ onNodeClickCalls = <<>>
    /\ modal = NoModal
    /\ pending = <<>>
    /\ vault = <<>>
    /\ tagManager = <<>>
    /\ ticks = 0
    /\ tagColors = <<>>
    /\ lookup = NoLookup
    /\ styleEl = <<>>

NextGroup ==
    \/ \E i \in 1..Len(GroupPaths) : BuildSelect(GroupPaths[i], MaxGroupSel)
    \/ \E i \in 1..Len(GroupPaths) : BuildDeselect(GroupPaths[i])

SpecGroup == InitGroup /\ [][NextGroup]_vars

\* the included documents that are a member of no tag
Untagged(r) ==
    {p \in Included(r) : \A k \in 1..Len(r.tags) : ~MemberOf(r.tags[k], p)}

\* the colour tokens of the nodes of the document at path p
TokensOf(r, p) ==
    {r.nodes[i].color : i \in {j \in 1..Len(r.nodes) : r.nodes[j].path = p}}

OneNodePerDocument(r) ==
    /\ \A p \in Included(r) :
           Cardinality({i \in 1..Len(r.nodes) : r.nodes[i].path = p}) = 1
    /\ \A i \in 1..Len(r.nodes) : r.nodes[i].path \in Included(r)

\* C15: after every build the node set has exactly one node per selected
\* document of the corpus and no other node, and no two nodes have the same
\* id.
C15_OneNodeUniqueId ==
    /\ OneNodePerDocument(R1)
    /\ \A i, j \in 1..Len(R1.nodes) : R1.nodes[i].id = R1.nodes[j].id => i = j

----------------------------------------------------------------------------
\* The colour lookups: GraphRenderer.getTagColor, GraphRenderer.getNodeColor
\* and GraphViewModal.getHexColor.  A colour class "tag-color-3" is the
\* token <<"tag-color", 3>>, "custom-x" is <<"custom", "x">>, "" is <<"", 0>>.

MaxPalette == 12     \* largest index of a tag-color token looked up
MaxGroup == 7        \* largest index of an untagged-group token looked up

\* the colorMap entries 'tag-color-1' .. 'tag-color-10'
TagColorTable ==
    <<"#ff6b6b", "#4ecdc4", "#45b7d1", "#96ceb4", "#feca57",
      "#ff9ff3", "#54a0ff", "#5f27cd", "#00d2d3", "#ff9f43">>

\* the colorMap entries 'untagged-group-1' .. 'untagged-group-5'
GroupColorTable == <<"#8a8a8a", "#7c7c7c", "#6e6e6e", "#606060", "#525252">>

IsPaletteToken(c) == c[1] = "tag-color" /\ c[2] \in 1..Len(TagColorTable)
IsGroupToken(c) == c[1] = "untagged-group" /\ c[2] \in 1..Len(GroupColorTable)

\* return colorMap[colorClass] || '#999'
getTagColor(c) ==
    IF IsPaletteToken(c) THEN TagColorTable[c[2]] ELSE "#999"

\* return colorMap[colorClass] || '#8a8a8a'
getNodeColor(c) ==
    IF IsPaletteToken(c) THEN TagColorTable[c[2]]
    ELSE IF IsGroupToken(c) THEN GroupColorTable[c[2]]
    ELSE "#8a8a8a"

\* this.plugin.settings.tagColors[key]
HasColor(tc, key) == \E i \in 1..Len(tc) : tc[i].key = key
ColorOf(tc, key) == tc[CHOOSE i \in 1..Len(tc) : tc[i].key = key].value

\* getHexColor: the stored colour of the class, the stored colour of
\* `${colorClass}_hex`, colorMap[colorClass] || '#69b3a2'
getHexColor(tc, c) ==
    IF HasColor(tc, c) THEN ColorOf(tc, c)
    ELSE IF HasColor(tc, c \o <<"_hex">>) THEN ColorOf(tc, c \o <<"_hex">>)
    ELSE IF IsPaletteToken(c) THEN TagColorTable[c[2]]
    ELSE IF IsGroupToken(c) THEN GroupColorTable[c[2]]
    ELSE "#69b3a2"

\* const customColorClass = `custom-${tagName}`
CustomClass(tagName) == <<"custom", tagName[1]>>

\* tagColors[key] = value
SetColor(tc, key, value) ==
    IF HasColor(tc, key)
    THEN [i \in 1..Len(tc) |->
             IF tc[i].key = key THEN [key |-> key, value |-> value] ELSE tc[i]]
    ELSE Append(tc, [key |-> key, value |-> value])

\* what updateTagColorWithHex stores: tagColors[tagName] = hexColor and
\* tagColors[`${colorClass}_hex`] = hexColor
StoreCustomColor(tc, tagName) ==
    SetColor(SetColor(tc, tagName, "#123456"),
             CustomClass(tagName) \o <<"_hex">>, "#123456")

ColorTokens ==
    {<<"tag-color", i>> : i \in 0..MaxPalette}
        \cup {<<"untagged-group", i>> : i \in 0..MaxGroup}
        \cup {CustomClass(TagX), CustomClass(TagY), <<"", 0>>}

\* the settings after custom colours were given to no tag, to x, to y, to both
InitColor ==
    /\ \E given \in DistinctSeqs({TagX, TagY}, 2) :
           tagColors = FoldL(StoreCustomColor, <<>>, given)
    /\ lookup = NoLookup
    /\ styleEl = <<>>
    /\ renderers = [i \in RendererIds |-> NoRenderer]
    /\ selectedNodes = <<>>
    /\ containerSize = 0
    /\ drag = NoDrag
    /\ nodeClicks = 0
    /\ onNodeClickCalls = <<>>
    /\ modal = NoModal
    /\ pending = <<>>
    /\ vault = <<>>
    /\ tagManager = <<>>
    /\ ticks = 0

\* a colour class is resolved by each of the three lookups
ResolveColor(c) ==
    /\ lookup' = [kind |-> "lookup", token |-> c,
                  tag |-> getTagColor(c),
                  node |-> getNodeColor(c),
                  hex |-> getHexColor(tagColors, c)]
    /\ UNCHANGED <<renderers, selectedNodes, containerSize, pointerVars,
                   modalVars, tagColors, styleEl>>

NextColor == \E c \in ColorTokens : ResolveColor(c)

SpecColor == InitColor /\ [][NextColor]_vars

\* C16: every token tag-color-1..10 and untagged-group-1..5 resolves to its
\* table colour and every other token (one with no stored custom colour)
\* resolves to one default colour, the same in getNodeColor, getTagColor and
\* getHexColor.
C16_LookupTotalOneDefault ==
    lookup # NoLookup =>
        LET c == lookup.token
            all(v) == lookup.tag = v /\ lookup.node = v /\ lookup.hex = v
        IN  IF IsPaletteToken(c) THEN all(TagColorTable[c[2]])
            ELSE IF IsGroupToken(c) THEN all(GroupColorTable[c[2]])
            ELSE (HasColor(tagColors, c) \/ HasColor(tagColors, c \o <<"_hex">>))
                     \/ all(getNodeColor(<<"", 0>>))

----------------------------------------------------------------------------
\* Pan, zoom and centre, as d3-zoom runs the behaviours the renderer makes.
\* initializeGraph puts one behaviour with scaleExtent [0.1, 4] and a "zoom"
\* listener on the svg; centerGraph calls the transform method of a second,
\* new behaviour, which has the default scale extent and no listener, and
\* transform sets the svg's zoom transform as given.

Live(rid) == renderers[rid] # NoRenderer /\ renderers[rid].svgAttached

\* a wheel event: the scale is multiplied or divided by 2 and clamped to the
\* scale extent; nothing is emitted when the clamped scale is the old one
Wheel(rid, up) ==
    /\ Live(rid)
    /\ LET k == renderers[rid].zoomK
           raw == IF up THEN k * 2 ELSE k \div 2
           nk == IF raw < ScaleMin THEN ScaleMin
                 ELSE IF raw > ScaleMax THEN ScaleMax ELSE raw
       IN  /\ nk # k
           /\ renderers' = [renderers EXCEPT ![rid].zoomK = nk, ![rid].graphK = nk]
    /\ UNCHANGED <<selectedNodes, containerSize, pointerVars, modalVars, colorVars>>

\* a pointer drag on the background: the transform is translated, its scale
\* kept, and the listener writes it to graphG
Pan(rid) ==
    /\ Live(rid)
    /\ renderers' = [renderers EXCEPT ![rid].graphK = renderers[rid].zoomK]
    /\ UNCHANGED <<selectedNodes, containerSize, pointerVars, modalVars, colorVars>>

CenterFill == 85     \* const scale = 0.85 / Math.max(...)

\* Math.max(width / fullWidth, height / fullHeight) of the bounding box of
\* graphG, in hundredths: a graph that takes a twentieth of the view (one
\* node in a large container) and one that takes half of it
BoundsRatios == {5, 50}

\* centerGraph, at the end of its transition
centerGraph(r, ratio) ==
    IF Len(r.nodes) = 0 THEN r
    ELSE [r EXCEPT !.zoomK = (CenterFill * 100) \div ratio]

CenterGraph(rid, ratio) ==
    /\ Live(rid)
    /\ renderers' = [renderers EXCEPT ![rid] = centerGraph(@, ratio)]
    /\ UNCHANGED <<selectedNodes, containerSize, pointerVars, modalVars, colorVars>>

MaxZoomSel == 1      \* most selected documents while the viewport is moved

NextZoom ==
    \/ \E i \in 1..Len(GroupPaths) : BuildSelect(GroupPaths[i], MaxZoomSel)
    \/ \E up \in BOOLEAN : Wheel(1, up)
    \/ Pan(1)
    \/ \E ratio \in BoundsRatios : CenterGraph(1, ratio)

SpecZoom == InitGroup /\ [][NextZoom]_vars

\* C17: the scale of the viewport transform, as kept by the zoom behaviour
\* and as written to the graph group, is in [0.1, 4] in every state.
C17_ScaleInRange ==
    Live(1) =>
        /\ R1.zoomK \in ScaleMin..ScaleMax
        /\ R1.graphK # Undef => R1.graphK \in ScaleMin..ScaleMax

----------------------------------------------------------------------------
\* Claims about dragging and presentation

\* C18: right after a drag-move to p, before any tick, the circle of the
\* dragged node is displayed at p.
C18_DragMoveShown ==
    [][\A p \in Points :
          (drag # NoDrag /\ drag.idx # 0 /\ DragMove(p)) =>
              renderers'[drag.renderer].nodeElements[drag.idx].cx = p]_vars

----------------------------------------------------------------------------
\* Claims about the colour of a node

\* the tags of r that the document at path p is a member of, by position in
\* the tag index
TagsOfDoc(r, p) == {k \in 1..Len(r.tags) : MemberOf(r.tags[k], p)}

\* the first tag in tag-index order among those of T with the largest size
FirstLargest(T, size) ==
    CHOOSE k \in T :
        /\ \A j \in T : size[j] <= size[k]
        /\ \A j \in T : size[j] = size[k] => k <= j

\* every node of a tagged document has the colour of the first of the
\* document's tags with the largest size (size: tag position -> number)
ColouredByLargest(r, size) ==
    \A i \in 1..Len(r.nodes) :
        TagsOfDoc(r, r.nodes[i].path) # {} =>
            r.nodes[i].color =
                r.tags[FirstLargest(TagsOfDoc(r, r.nodes[i].path), size)].color

\* C19: a node of a document with tags has the colour token of the tag with
\* the largest member set among the document's tags, the first of them in
\* tag-index order when several are largest.
C19_LargestMemberSet ==
    ColouredByLargest(R1, [k \in 1..Len(R1.tags) |-> Len(R1.tags[k].files)])

\* C19, amended: the size that is compared is the number of selected
\* documents of the corpus that are members of the tag.
C19_MostSelectedMembers ==
    ColouredByLargest(R1,
        [k \in 1..Len(R1.tags) |->
            Cardinality({p \in Included(R1) : MemberOf(R1.tags[k], p)})])

\* a document of two tags is coloured by the second, which has more selected
\* members and fewer members than the first
C19_Witness ==
    \E i \in 1..Len(R1.nodes) :
        /\ TagsOfDoc(R1, R1.nodes[i].path) = {1, 2}
        /\ Len(R1.tags[1].files) > Len(R1.tags[2].files)
        /\ R1.nodes[i].color = R1.tags[2].color
        /\ R1.tags[1].color # R1.tags[2].color

\* the position of the document at path p in the iteration order of allData
CorpusIndex(r, p) == CHOOSE i \in 1..Len(r.allData) : r.allData[i].path = p

\* C20: the i-th (0-based) untagged selected document in corpus order is in
\* cluster floor(i / 3) + 1, whatever the order of the selection.
C20_CorpusOrderBuckets ==
    \A i \in 1..Len(R1.nodes) :
        LET p == R1.nodes[i].path
            before == {q \in Untagged(R1) : CorpusIndex(R1, q) < CorpusIndex(R1, p)}
        IN  p \in Untagged(R1) =>
                R1.nodes[i].color =
                    <<"untagged-group", (Cardinality(before) \div 3) + 1>>

----------------------------------------------------------------------------
\* The simulation of the modal's renderer under its perturbations: the rows
\* of the tree are clicked and refreshes complete, a slider of the settings
\* panel is moved, the container is resized, a node is grabbed and released,
\* and the simulation's timer steps it for as long as it runs.

LinkDistanceMin == 10    \* createSlider(.., 'linkDistance', 10, 300, 1)

LinkDistances == {LinkDistanceMin, DefaultLinkDistance}

\* the widths the container takes while the modal is shown
WarmSizes == {2, 4}

\* slider.oninput for linkDistance: the value goes to the renderer's
\* settings, then updateSimulation
SliderInput(v) ==
    /\ modal.phase = "open"
    /\ modal.graphRenderer # 0
    /\ renderers' = [renderers EXCEPT ![modal.graphRenderer] =
           updateSimulation([@ EXCEPT !.settings.linkDistance = v], containerSize)]
    /\ UNCHANGED <<selectedNodes, containerSize, pointerVars, modalVars, colorVars>>

\* the layout gives the container another width
ContainerResize(size) ==
    /\ modal.phase = "open"
    /\ size # containerSize
    /\ containerSize' = size
    /\ UNCHANGED <<renderers, selectedNodes, pointerVars, modalVars, colorVars>>

\* a step of the running simulation of renderer rid
WarmTick(rid) ==
    /\ Tick(rid)
    /\ UNCHANGED <<selectedNodes, containerSize, pointerVars, modalVars, colorVars>>

\* the renderer once its simulation has cooled and stopped, no force moving
\* a node any more
RECURSIVE Settled(_)
Settled(r) ==
    IF r.simulation = NoSim \/ ~r.simulation.running THEN r
    ELSE Settled(tick(r, [i \in 1..Len(r.nodes) |-> r.nodes[i].x]))

\* the modal is open on its renderer, no document or the document of the
\* vault is selected, and the simulation is fresh or has cooled and stopped
InitWarm ==
    /\ vault = ModalVault
    /\ tagManager = extractAndUpdateTags(<<>>, vault)
    /\ modal = [kind |-> "modal", phase |-> "open", graphRenderer |-> 1,
                data |-> vault, initTimer |-> FALSE, refreshTimers |-> 0]
    /\ selectedNodes \in {<<>>, <<PathA>>}
    /\ containerSize = 2
    /\ \E cooled \in BOOLEAN :
           LET fresh == [resizeCallback(
                             NewRenderer(vault, selectedNodes,
                                         convertToGraphTags(tagManager),
                                         Settings(FALSE), containerSize),
                             containerSize) EXCEPT !.observed = containerSize]
           IN  renderers = [i \in RendererIds |->
                   IF i = 1 THEN (IF cooled THEN Settled(fresh) ELSE fresh)
                   ELSE NoRenderer]
    /\ pending = <<>>
    /\ drag = NoDrag
    /\ nodeClicks = 0
    /\ onNodeClickCalls = <<>>
    /\ ticks = 0
    /\ tagColors = <<>>
    /\ lookup = NoLookup
    /\ styleEl = <<>>

\* the perturbations of the renderer
Perturb ==
    \/ \E path \in VaultPaths : RowClick(path)
    \/ \E k \in 1..Len(pending) : RefreshCompletes(k)
    \/ \E v \in LinkDistances : SliderInput(v)
    \/ \E size \in WarmSizes : ContainerResize(size)
    \/ ResizeNotify(1)
    \/ \E i \in 1..Len(renderers[1].nodes) : DragStart(1, i)
    \/ DragEnd

\* the perturbations, with at most MaxTicks steps of the simulation
NextWarm ==
    \/ Perturb
    \/ LifeTick(1)

SpecWarm == InitWarm /\ [][NextWarm]_vars

\* the perturbations, with the simulation stepping for as long as it runs
NextCool ==
    \/ Perturb
    \/ WarmTick(1)

SpecCool == InitWarm /\ [][NextCool]_vars

----------------------------------------------------------------------------
\* Claims about the simulation under perturbation

\* the simulation of renderer 1 is left as it is but for its force
\* parameters and its activity
SameLayout(r, s) ==
    /\ s.nodes = r.nodes
    /\ s.links = r.links
    /\ s.nodeElements = r.nodeElements
    /\ s.linkElements = r.linkElements
    /\ s.simulation.id = r.simulation.id
    /\ s.simulation.alphaTarget = r.simulation.alphaTarget

\* C21: updateSimulation after a slider changed a setting, and the resize
\* callback, leave the nodes, the links, every node's position, velocity and
\* pin and the simulation handle as they are.
C21_WarmReconfigure ==
    [][((\E v \in LinkDistances : SliderInput(v)) \/ ResizeNotify(1))
           => SameLayout(renderers[1], renderers'[1])]_vars

\* a pinned, positioned node after the slider was moved to its minimum
C21_Witness ==
    /\ R1.simulation.linkDistance = LinkDistanceMin
    /\ R1.simulation.alpha = AlphaUpdate
    /\ Len(R1.nodes) = 1
    /\ R1.nodes[1].x # Undef
    /\ R1.nodes[1].fx # Undef

\* the simulation's timer is active and the step it takes next leaves the
\* activity at or above alphaMin
Heated(r) ==
    /\ r.simulation # NoSim
    /\ r.simulation.running
    /\ TickAlpha(r.simulation) >= AlphaMin

\* C22: after a rebuild, a settings change, a resize, a drag start or a drag
\* end on the live renderer, its simulation is running and its activity
\* after the next tick is not below alphaMin.
C22_PerturbationReheats ==
    [][(\/ \E k \in 1..Len(pending) : RefreshCompletes(k)
        \/ \E v \in LinkDistances : SliderInput(v)
        \/ ResizeNotify(1)
        \/ \E i \in 1..Len(renderers[1].nodes) : DragStart(1, i)
        \/ DragEnd)
           => Heated(renderers'[1])]_vars

\* a node was grabbed while the simulation had cooled and stopped: the timer
\* runs again and the activity is still the cooled one
C22_Witness ==
    /\ drag # NoDrag
    /\ R1.simulation.running
    /\ R1.simulation.alpha < AlphaMin
    /\ R1.simulation.alphaTarget = AlphaDragTarget

\* the timer of a running simulation keeps stepping it
SpecCoolFair == SpecCool /\ WF_vars(WarmTick(1))

\* when from some point on the only steps are ticks, then with no node
\* dragged the simulation is stopped from some point on
SettlesWhenQuiet ==
    <>[][WarmTick(1)]_vars => <>[](drag = NoDrag => ~R1.simulation.running)

\* while a node is dragged the timer is active and the next tick leaves the
\* activity at or above alphaMin
HeatedWhileDragged == [](drag # NoDrag => Heated(renderers[drag.renderer]))

\* C23: with no node dragged and no further event the activity decays below
\* alphaMin after finitely many ticks and the simulation stops; while a node
\* is dragged the activity stays at or above alphaMin and the simulation
\* keeps ticking.
C23_SettlesUnlessDragged == SettlesWhenQuiet /\ HeatedWhileDragged

----------------------------------------------------------------------------
\* The tag manager over a vault that is edited between rescans

\* the tags a document's text can contain
TagContents == {<<>>, <<TagX>>, <<TagY>>, <<TagX, TagY>>}

\* the text of file i of the vault is edited
EditFile(i, tagsOfText) ==
    /\ i \in 1..Len(vault)
    /\ vault[i].content # tagsOfText
    /\ vault' = [vault EXCEPT ![i].content = tagsOfText]
    /\ UNCHANGED <<renderers, selectedNodes, containerSize, pointerVars,
                   modal, pending, tagManager, ticks, colorVars>>

\* file i of the vault is deleted
DeleteFile(i) ==
    /\ i \in 1..Len(vault)
    /\ vault' = SubSeq(vault, 1, i - 1) \o SubSeq(vault, i + 1, Len(vault))
    /\ UNCHANGED <<renderers, selectedNodes, containerSize, pointerVars,
                   modal, pending, tagManager, ticks, colorVars>>

\* tagManager.extractAndUpdateTags(data) on the vault as it is
Rescan ==
    /\ tagManager' = extractAndUpdateTags(tagManager, vault)
    /\ UNCHANGED <<renderers, selectedNodes, containerSize, pointerVars,
                   modal, pending, vault, ticks, colorVars>>

InitTags ==
    /\ vault = SimVault
    /\ tagManager = extractAndUpdateTags(<<>>, vault)
    /\ renderers = [i \in RendererIds |-> NoRenderer]
    /\ selectedNodes = <<>>
    /\ containerSize = 0
    /\ drag = NoDrag
    /\ nodeClicks = 0
    /\ onNodeClickCalls = <<>>
    /\ modal = NoModal
    /\ pending = <<>>
    /\ ticks = 0
    /\ tagColors = <<>>
    /\ lookup = NoLookup
    /\ styleEl = <<>>

NextTags ==
    \/ \E i \in 1..Len(vault), c \in TagContents : EditFile(i, c)
    \/ \E i \in 1..Len(vault) : DeleteFile(i)
    \/ Rescan

SpecTags == InitTags /\ [][NextTags]_vars

\* the paths of the documents of data whose text contains the tag
Containing(data, name) ==
    {data[i].path : i \in {j \in 1..Len(data) : SeqHas(data[j].content, name)}}

\* C25: after every rescan the files of each tag are exactly the documents of
\* the rescanned corpus whose text contains the tag, each once (so that the
\* count, the length of files, is the size of that set).
C25_MembersRecomputed ==
    [][Rescan =>
          \A k \in 1..Len(tagManager') :
              /\ {tagManager'[k].files[j] : j \in 1..Len(tagManager'[k].files)}
                     = Containing(vault, tagManager'[k].name)
              /\ Len(tagManager'[k].files)
                     = Cardinality(Containing(vault, tagManager'[k].name))]_vars

\* ---------------------------------------------------------------------------
\* Element identity across a rebuild
\* ---------------------------------------------------------------------------

\* the ids of the nodes of a renderer
NodeIds(r) == {r.nodes[i].id : i \in 1..Len(r.nodes)}

\* the unordered endpoint pairs of the links of a renderer
EdgePairs(r) == {EndIds(r.nodes, r.links[i]) : i \in 1..Len(r.links)}

\* one circle per node and one line per link, each bound to its datum
OnePrimitiveEach(r) ==
    /\ Len(r.nodeElements) = Len(r.nodes)
    /\ Len(r.linkElements) = Len(r.links)
    /\ \A i \in 1..Len(r.nodes) : r.nodeElements[i].key = r.nodes[i].id
    /\ \A i \in 1..Len(r.links) :
           r.linkElements[i].key = LinkKey(r.nodes, r.links[i])

\* the data join binds datum i of the new data to an element of the old
\* selection: the datum is the first of its key and an old element has the
\* key; every other datum gets a new element
BoundToOld(old, keys, i) ==
    /\ \A j \in 1..(i - 1) : keys[j] # keys[i]
    /\ \E j \in 1..Len(old) : old[j].key = keys[i]

\* the circles of the persisting ids are kept and only those of new ids are made
NodePrimitivesKept(r, s) ==
    \A i \in 1..Len(s.nodes) :
        BoundToOld(r.nodeElements, [j \in 1..Len(s.nodes) |-> s.nodes[j].id], i)
            <=> s.nodes[i].id \in NodeIds(r)

\* the lines of the persisting endpoint pairs are kept and only those of new
\* pairs are made
EdgePrimitivesKept(r, s) ==
    \A i \in 1..Len(s.links) :
        BoundToOld(r.linkElements,
                   [j \in 1..Len(s.links) |-> LinkKey(s.nodes, s.links[j])], i)
            <=> EndIds(s.nodes, s.links[i]) \in EdgePairs(r)

\* C24: across every rebuild the primitive of a node whose id is in the old
\* and the new node set, and of an edge whose unordered endpoint pair is in
\* the old and the new edge set, is the same primitive updated in place, new
\* primitives are made only for new nodes and edges, and afterwards there is
\* exactly one primitive per current node and edge.
C24_PrimitivesPersist ==
    [][/\ OnePrimitiveEach(renderers'[1])
       /\ NodePrimitivesKept(renderers[1], renderers'[1])
       /\ EdgePrimitivesKept(renderers[1], renderers'[1])]_vars

\* ---------------------------------------------------------------------------
\* A drag interleaved with rebuilds
\* ---------------------------------------------------------------------------

\* the nodes of the live node set of r that have the id of the node the
\* gesture g writes to
LiveSubjects(r, g) ==
    {i \in 1..Len(r.nodes) : r.nodes[i].id = Subject(r, g).id}

\* every live node with the dragged id carries the pin the gesture wrote
PinCarried(r, g) ==
    \A i \in LiveSubjects(r, g) : r.nodes[i].fx = Subject(r, g).fx

\* every live node with the dragged id is displayed at the pin
PinShown(r, g) ==
    \A i \in LiveSubjects(r, g) : r.nodeElements[i].cx = Subject(r, g).fx

\* C26: while a node is dragged, the node with that id in the live node set
\* carries the pointer's pin, it is displayed at the pin after every tick, and
\* a drag-move writes only to a node object of the live simulation, however
\* the drag is interleaved with rebuilds.
C26_DragSurvivesRebuild ==
    [][/\ drag' # NoDrag => PinCarried(renderers'[drag'.renderer], drag')
       /\ (drag # NoDrag /\ drag' = drag /\ LifeTick(1)) =>
              PinShown(renderers'[drag.renderer], drag')
       /\ \A p \in Points : DragMove(p) => drag.idx # 0]_vars

\* ---------------------------------------------------------------------------
\* Refreshes that overlap while the vault changes
\* ---------------------------------------------------------------------------

MaxInFlight == 2     \* most refreshes in flight when a row is clicked

\* the texts a document is edited to: its tags are removed
EditContents == {<<>>}

NextRefresh ==
    \/ \E path \in VaultPaths : RowClickWithin(path, MaxInFlight)
    \/ \E k \in 1..Len(pending) : RefreshCompletes(k)
    \/ \E i \in 1..Len(vault), c \in EditContents : EditFile(i, c)
    \/ \E i \in 1..Len(vault) : DeleteFile(i)

SpecRefresh == InitSim /\ [][NextRefresh]_vars

\* the paths of the nodes of a renderer
NodePaths(r) == {r.nodes[i].path : i \in 1..Len(r.nodes)}

\* promise k completes after the latest promise has: it is not the latest
\* and the latest is no longer pending
LateCompletion(k) ==
    /\ RefreshCompletes(k)
    /\ \A j \in 1..Len(pending) : ~pending[j].latest

\* C27: when a refresh completes and none is pending any more, the node set
\* is the selected documents of the data and the data are those of the
\* parseVault call that was started last; a refresh that completes after the
\* latest one has completed does not replace its data.
C27_LatestReadWins ==
    [][\A k \in 1..Len(pending) :
          /\ (RefreshCompletes(k) /\ pending' = <<>>) =>
                 NodePaths(renderers'[1]) = Included(renderers'[1])
          /\ LateCompletion(k) =>
                 /\ modal'.data = modal.data
                 /\ renderers'[1].allData = renderers[1].allData]_vars

\* ---------------------------------------------------------------------------
\* The centering forces and the size of the container
\* ---------------------------------------------------------------------------

\* the center force and the x and y pulls of r aim at the center of size
CenteredOn(r, size) ==
    /\ r.simulation.center = CenterOf(size)
    /\ r.simulation.forceX = CenterOf(size)

\* a step that sets forces of the simulation of renderer 1: a rebuild, a
\* settings change, or the callback of the ResizeObserver
SetsForces ==
    \/ \E k \in 1..Len(pending) : RefreshCompletes(k)
    \/ \E v \in LinkDistances : SliderInput(v)
    \/ ResizeNotify(1)

\* C28: after every step that sets forces of a live renderer, also after
\* any sequence of resizes, the center force and the x and y pulls aim at the
\* center of the container's current size.
C28_ForcesFollowSize ==
    [][SetsForces => CenteredOn(renderers'[1], containerSize')]_vars

\* ---------------------------------------------------------------------------
\* The endpoints of the edges
\* ---------------------------------------------------------------------------

\* position i is that of a node of the node array of r, and the node is
\* that of a selected document of the data
CurrentNode(r, i) ==
    /\ i \in 1..Len(r.nodes)
    /\ r.nodes[i].path \in Included(r)

\* C29: after every build both endpoints of every edge are nodes of the
\* current node set, also when two selected documents share a basename.
C29_EdgeEndsAreCurrentNodes ==
    \A rid \in RendererIds :
        renderers[rid] # NoRenderer =>
            \A i \in 1..Len(renderers[rid].links) :
                /\ CurrentNode(renderers[rid], renderers[rid].links[i].source)
                /\ CurrentNode(renderers[rid], renderers[rid].links[i].target)

\* two selected documents share a basename and an edge ends at one of them
C29_Witness ==
    \E i, j \in 1..Len(renderers[1].nodes), k \in 1..Len(renderers[1].links) :
        /\ i # j
        /\ renderers[1].nodes[i].id = renderers[1].nodes[j].id
        /\ i \in {renderers[1].links[k].source, renderers[1].links[k].target}

\* ---------------------------------------------------------------------------
\* Custom colours and their display rules
\* ---------------------------------------------------------------------------

\* the hex colours typed into the colour dialog
HexColors == {"#123456", "#abcdef"}

\* the palette classes picked in the colour dialog
PaletteClasses == {<<"tag-color", 1>>, <<"tag-color", 3>>}

\* TagManager.updateTagColor: the colour of the tag, when there is the tag
TagManagerUpdateTagColor(tm, tagName, color) ==
    [i \in 1..Len(tm) |->
        IF tm[i].name = tagName THEN [tm[i] EXCEPT !.color = color] ELSE tm[i]]

\* addCustomColorCSS: styleEl.textContent = the rules of className
addCustomColorCSS(style, className, hexColor) ==
    <<[class |-> className, hex |-> hexColor]>>

\* the names of the tags in the tag list
ListedTags == {tagManager[k].name : k \in 1..Len(tagManager)}

\* customColorBtn.onclick with a valid hex value: updateTagColorWithHex(
\* tagName, hexValue, `custom-${tagName}`), which ends with refreshGraph
UseCustomColor(tagName, hexColor) ==
    LET colorClass == CustomClass(tagName)
        rid == modal.graphRenderer
    IN  /\ modal.phase = "open"
        /\ rid # 0
        /\ Len(pending) < MaxPending
        /\ tagManager' = TagManagerUpdateTagColor(tagManager, tagName, colorClass)
        /\ renderers' = [renderers EXCEPT ![rid] =
               updateTagColor(@, tagName, colorClass, selectedNodes, containerSize)]
        /\ drag' = DetachDrag(drag, rid, renderers[rid])
        /\ tagColors' = SetColor(SetColor(tagColors, tagName, hexColor),
                                 colorClass \o <<"_hex">>, hexColor)
        /\ styleEl' = addCustomColorCSS(styleEl, colorClass, hexColor)
        /\ pending' = StartRead(rid)
        /\ UNCHANGED <<selectedNodes, containerSize, nodeClicks, onNodeClickCalls,
                       modal, vault, ticks, lookup>>

\* a palette colour of the dialog is clicked: updateTagColor(tagName, class)
UsePaletteColor(tagName, colorClass) ==
    LET rid == modal.graphRenderer
    IN  /\ modal.phase = "open"
        /\ rid # 0
        /\ renderers' = [renderers EXCEPT ![rid] =
               updateTagColor(@, tagName, colorClass, selectedNodes, containerSize)]
        /\ drag' = DetachDrag(drag, rid, renderers[rid])
        /\ tagManager' = TagManagerUpdateTagColor(tagManager, tagName, colorClass)
        /\ tagColors' = SetColor(tagColors, tagName, colorClass)
        /\ UNCHANGED <<selectedNodes, containerSize, nodeClicks, onNodeClickCalls,
                       modal, pending, vault, ticks, lookup, styleEl>>

NextStyle ==
    \/ \E t \in ListedTags, h \in HexColors : UseCustomColor(t, h)
    \/ \E t \in ListedTags, c \in PaletteClasses : UsePaletteColor(t, c)
    \/ \E path \in VaultPaths : RowClick(path)
    \/ \E k \in 1..Len(pending) : RefreshCompletes(k)

SpecStyle == InitSim /\ [][NextStyle]_vars

\* the style element has a rule for the class
HasRule(style, className) == \E i \in 1..Len(style) : style[i].class = className

\* the colour token is a custom class
IsCustomClass(c) == c[1] = "custom"

\* C30: after any sequence of custom and palette colour choices, every tag
\* whose colour is a custom class has the display rule of that class in the
\* style element.
C30_CustomRulesInstalled ==
    \A k \in 1..Len(tagManager) :
        IsCustomClass(tagManager[k].color) => HasRule(styleEl, tagManager[k].color)

====
